---- MODULE Spec2Model ----
(***************************************************************************)
(* Ring assembly of MapDevolution: the greedy endpoint stitcher that turns *)
(* the member ways of an OSM multipolygon relation into rings, and the     *)
(* code around it: the client's debounced fetch with its query counter and *)
(* IndexedDB cache (ClientSpec; AllSucceedSpec is its runs without         *)
(* provider failures), the entry of fetchMapData on concrete bounds        *)
(* (BoundsSpec), the server's memoized GetCountries (ServerSpec) and the   *)
(* renderer's antimeridian split (RenderSpec).                             *)
(*                                                                         *)
(* Three copies of the stitcher are modelled (Spec, and LiveSpec with the  *)
(* fairness of sequential code):                                           *)
(*   "ts"    the client-side boundary parser (CanvasRenderer.tsx 647-717), *)
(*   "cs"    the server-side BoundariesController.ProcessBoundaries /      *)
(*           ProcessMultipolygon,                                          *)
(*   "parks" the client-side park parser (CanvasRenderer.tsx 605-626).     *)
(*                                                                         *)
(* Coordinates are fixed-point integers: one unit is 0.00005 degree, so    *)
(* the code's tolerance 0.0001 is 2 units.  Floating-point rounding is not *)
(* modelled.  A member's geometry holds only valid points; a missing or    *)
(* empty geometry is the empty sequence.                                   *)
(***************************************************************************)
EXTENDS Integers, Sequences, FiniteSets, TLC

\* Bounds of the model.
MaxWays == 3
MaxLen == 3

\* The tolerance 0.0001 degree of the endpoint comparisons, in units.
EPSILON == 2

\* One degree, in units.
Degree == 10000 * EPSILON

\* The ring assembler.
VARIABLES
  members,      \* the relation's members as the provider returned them
  impl,         \* which copy of the code is running: "none", "ts", "cs", "parks"
  outerWays,    \* the filtered, converted ways (the assembler's own copies)
  used,         \* the set `used` of indices into outerWays
  rings,        \* the list `rings` of finished rings (point lists)
  currentRing,  \* the ring being built
  i,            \* the index of the outer for loop (1-based)
  pc,           \* "start", "for", "while", "done"
  ringMem,      \* history: for each finished ring, the ways spliced into it
  curMem        \* history: the ways spliced into currentRing, in ring order

\* The client's fetch effect (CanvasRenderer.tsx 32-776).
VARIABLES
  mounted,           \* "no", "yes", "gone": the effect ran / was cleaned up
  viewport,          \* what map.getBounds() / map.getZoom() return now
  moves,             \* history: the number of moveend events so far
  timers,            \* the pending setTimeout timers (ids are event numbers)
  fetchTimeoutRef,   \* fetchTimeoutRef.current (0 is null)
  superseded,        \* history: the timers cleared while they were pending
  queryCounterRef,   \* queryCounterRef.current
  lastBboxRef,       \* lastBboxRef.current
  rateLimited,       \* Date.now() < rateLimitedUntil.current
  cache,             \* the IndexedDB store: bbox -> data
  mapData,           \* the component state mapData
  isLoading,         \* the component state isLoading
  calls              \* the invocations of fetchMapData, in call order

\* The server's GetCountries (BoundariesController, part_000 11-68).
VARIABLES
  cachedBoundaries,  \* _cachedBoundaries (0 is null, k the list of pass k)
  lockOwner,         \* the thread inside lock (_lock), 0 when it is free
  tpc,               \* each request thread's position
  response,          \* each request's response
  passes             \* history: the completed runs of ProcessBoundaries

\* The renderer's boundary loop (CanvasRenderer.tsx 871-922).
VARIABLES
  actualRing,        \* the ring of mapData being drawn
  ri,                \* the index i of the split loop (1-based)
  segments,          \* the list `segments`
  currentSegment,    \* the segment being filled
  subPaths,          \* the sub-paths added to the canvas path
  rpc                \* "begin", "split", "draw", "done"

stitchVars == <<members, impl, outerWays, used, rings, currentRing, i, pc, ringMem, curMem>>
clientVars ==
  <<mounted, viewport, moves, timers, fetchTimeoutRef, superseded, queryCounterRef,
    lastBboxRef, rateLimited, cache, mapData, isLoading, calls>>
serverVars == <<cachedBoundaries, lockOwner, tpc, response, passes>>
renderVars == <<actualRing, ri, segments, currentSegment, subPaths, rpc>>

vars == <<stitchVars, clientVars, serverVars, renderVars>>

\* The parts of the program a specification does not run stay as they are
\* before they start.
StitchIdle ==
  /\ members = <<>>
  /\ impl = "none"
  /\ outerWays = <<>>
  /\ used = {}
  /\ rings = <<>>
  /\ currentRing = <<>>
  /\ i = 1
  /\ pc = "start"
  /\ ringMem = <<>>
  /\ curMem = <<>>

ClientIdle ==
  /\ mounted = "no"
  /\ viewport = <<>>
  /\ moves = 0
  /\ timers = {}
  /\ fetchTimeoutRef = 0
  /\ superseded = {}
  /\ queryCounterRef = 0
  /\ lastBboxRef = ""
  /\ rateLimited = FALSE
  /\ cache = <<>>
  /\ mapData = <<>>
  /\ isLoading = FALSE
  /\ calls = <<>>

ServerIdle ==
  /\ cachedBoundaries = 0
  /\ lockOwner = 0
  /\ tpc = <<>>
  /\ response = <<>>
  /\ passes = 0

RenderIdle ==
  /\ actualRing = <<>>
  /\ ri = 1
  /\ segments = <<>>
  /\ currentSegment = <<>>
  /\ subPaths = <<>>
  /\ rpc = "begin"

----------------------------------------------------------------------------
\* Helpers on sequences and numbers.

Abs(x) == IF x < 0 THEN -x ELSE x

\* Array.prototype.reverse / List.Reverse
Reverse(s) == [k \in 1..Len(s) |-> s[Len(s) + 1 - k]]

\* slice(0, -1) / RemoveAt(Count - 1)
DropLast(s) == SubSeq(s, 1, Len(s) - 1)

\* The indices k of 1..n with keep[k], in increasing order (filter keeps order).
RECURSIVE FilterIdx(_, _)
FilterIdx(n, keep) ==
  IF n = 0 THEN <<>>
  ELSE IF keep[n] THEN Append(FilterIdx(n - 1, keep), n)
  ELSE FilterIdx(n - 1, keep)

\* The provider's point {lat, lon}.
Pt(lon, lat) == [lat |-> lat, lon |-> lon]

\* pt => [pt.lon, pt.lat]
ToCoord(pt) == <<pt.lon, pt.lat>>

\* geometry.map(pt => [pt.lon, pt.lat])
ToCoords(geometry) == [k \in 1..Len(geometry) |-> ToCoord(geometry[k])]

----------------------------------------------------------------------------
\* The endpoint test and the four splice cases.

\* Mutant of ArePointsClose: the comparison is <= instead of <.
ArePointsCloseInclusive(p1, p2) ==
  Abs(p1[1] - p2[1]) <= EPSILON /\ Abs(p1[2] - p2[2]) <= EPSILON

\* Mutant of ArePointsClose: only the longitudes are compared.
ArePointsCloseLonOnly(p1, p2) == Abs(p1[1] - p2[1]) < EPSILON

ArePointsClose(p1, p2) ==
  Abs(p1[1] - p2[1]) < EPSILON /\ Abs(p1[2] - p2[2]) < EPSILON

\* Mutant of ConnCase: the two branches that splice in front of the ring are
\* missing.
ConnCaseEndOnly(ring, way) ==
  LET ringEnd == ring[Len(ring)]
  IN  IF ArePointsClose(ringEnd, way[1]) THEN 1
      ELSE IF ArePointsClose(ringEnd, way[Len(way)]) THEN 2
      ELSE 0

\* Mutant of ConnCase: the two branches that reverse the candidate are
\* missing.
ConnCaseNoReversal(ring, way) ==
  IF ArePointsClose(ring[Len(ring)], way[1]) THEN 1
  ELSE IF ArePointsClose(ring[1], way[Len(way)]) THEN 3
  ELSE 0

\* Mutant of ConnCase: the last branch, start against start, is missing.
ConnCaseNoStartStart(ring, way) ==
  IF ArePointsClose(ring[Len(ring)], way[1]) THEN 1
  ELSE IF ArePointsClose(ring[Len(ring)], way[Len(way)]) THEN 2
  ELSE IF ArePointsClose(ring[1], way[Len(way)]) THEN 3
  ELSE 0

\* Which of the four else-if branches the candidate `way` takes against
\* `ring`: 1 end-start, 2 end-end, 3 start-end, 4 start-start, 0 none.
ConnCase(ring, way) ==
  LET ringStart == ring[1]
      ringEnd   == ring[Len(ring)]
      wayStart  == way[1]
      wayEnd    == way[Len(way)]
  IN  IF ArePointsClose(ringEnd, wayStart) THEN 1
      ELSE IF ArePointsClose(ringEnd, wayEnd) THEN 2
      ELSE IF ArePointsClose(ringStart, wayEnd) THEN 3
      ELSE IF ArePointsClose(ringStart, wayStart) THEN 4
      ELSE 0

\* Mutant of FirstConnection: a candidate that matches at the ring's end is
\* preferred to a lower-indexed one that matches only at the ring's start.
FirstConnectionEndFirst(ring, ways, usedSet) ==
  LET c == {j \in 1..Len(ways) : j \notin usedSet /\ ConnCase(ring, ways[j]) # 0}
      e == {j \in c : ConnCase(ring, ways[j]) \in {1, 2}}
      d == IF e = {} THEN c ELSE e
  IN  IF d = {} THEN 0 ELSE CHOOSE j \in d : \A k \in d : j <= k

\* Mutant of FirstConnection: a ring whose first and last points coincide
\* is taken as finished and no candidate is looked for.
FirstConnectionOpenOnly(ring, ways, usedSet) ==
  LET c == {j \in 1..Len(ways) : j \notin usedSet /\ ConnCase(ring, ways[j]) # 0}
  IN  IF c = {} \/ ArePointsClose(ring[1], ring[Len(ring)]) THEN 0
      ELSE CHOOSE j \in c : \A k \in c : j <= k

\* The inner for loop over j: the first unused way that takes a branch
\* (the loop breaks there), 0 when the scan ends without a connection.
FirstConnection(ring, ways, usedSet) ==
  LET c == {j \in 1..Len(ways) : j \notin usedSet /\ ConnCase(ring, ways[j]) # 0}
  IN  IF c = {} THEN 0 ELSE CHOOSE j \in c : \A k \in c : j <= k

\* Mutant of SpliceRing: branch 1 keeps the ring's last point, so the joint
\* holds both coincident endpoints.
SpliceRingKeepsJoint(ring, way, c) ==
  CASE c = 1 -> ring \o way
    [] c = 2 -> DropLast(ring) \o Reverse(way)
    [] c = 3 -> DropLast(way) \o ring
    [] c = 4 -> DropLast(Reverse(way)) \o ring

\* Mutant of SpliceRing: branch 4 drops the candidate's last point before
\* it reverses it, so the point next to the joint is lost and the joint's
\* point is doubled.
SpliceRingDropsBeforeReverse(ring, way, c) ==
  CASE c = 1 -> DropLast(ring) \o way
    [] c = 2 -> DropLast(ring) \o Reverse(way)
    [] c = 3 -> DropLast(way) \o ring
    [] c = 4 -> Reverse(DropLast(way)) \o ring

\* The new currentRing of branch c.
SpliceRing(ring, way, c) ==
  CASE c = 1 -> DropLast(ring) \o way
    [] c = 2 -> DropLast(ring) \o Reverse(way)
    [] c = 3 -> DropLast(way) \o ring
    [] c = 4 -> DropLast(Reverse(way)) \o ring

\* Mutant of MarkUsed: the index is not recorded.
MarkUsedForgets(usedSet, j) == usedSet

\* used.add(j)
MarkUsed(usedSet, j) == usedSet \cup {j}

\* What branch c leaves in outerWays[j]: reverse() works in place in both
\* copies; slice() copies but RemoveAt() works in place.
WayAfterSplice(way, c, im) ==
  CASE c = 1 -> way
    [] c = 2 -> Reverse(way)
    [] c = 3 -> IF im = "cs" THEN DropLast(way) ELSE way
    [] c = 4 -> IF im = "cs" THEN DropLast(Reverse(way)) ELSE Reverse(way)

\* History of a splice: way j enters the ring order at the end (branches 1,
\* 2) or at the front (3, 4), reversed in branches 2 and 4.
SpliceMem(mem, j, c) ==
  IF c \in {1, 2} THEN Append(mem, [j |-> j, rev |-> (c = 2)])
  ELSE <<[j |-> j, rev |-> (c = 4)]>> \o mem

\* Mutant of MembersAfterSplice: the ways alias the members' geometry, so
\* the in-place reversal of branches 2 and 4 reaches the caller's data.
MembersAfterSpliceAliased(ms, m, c) ==
  IF c \in {2, 4}
  THEN [ms EXCEPT ![m].geometry = Reverse(ms[m].geometry)]
  ELSE ms

\* What a splice of the way made from member m leaves in the provider
\* response: the ways are fresh arrays built by map() / Select(), so
\* reverse() and RemoveAt() reach no member.
MembersAfterSplice(ms, m, c) == ms

----------------------------------------------------------------------------
\* The member filters.

\* m.role === 'outer' || m.role === ''  and  way.length > 0
ClientKeeps(m) == (m.role = "outer" \/ m.role = "") /\ Len(m.geometry) > 0

\* m.Role == "outer" && m.Geometry != null && m.Geometry.Count > 0
ServerKeeps(m) == m.role = "outer" /\ Len(m.geometry) > 0

Keeps(m, im) == IF im = "cs" THEN ServerKeeps(m) ELSE ClientKeeps(m)

\* The indices of the members that become outerWays, in member order.
OuterIdx(ms, im) == FilterIdx(Len(ms), [k \in 1..Len(ms) |-> Keeps(ms[k], im)])

\* outerWays as first computed from the members.
OuterWaysOf(ms, im) ==
  LET idx == OuterIdx(ms, im)
  IN  [k \in 1..Len(idx) |-> ToCoords(ms[idx[k]].geometry)]

----------------------------------------------------------------------------
\* The stitcher as a function of the way list: the same loops, run to the
\* end.  Each ring comes with its history (pts, mem).

\* The while loop: splice connections into the ring until a scan finds none.
\* The way list is handed on as the splice leaves it (reverse() and
\* RemoveAt() work in place).
RECURSIVE ExtendRing(_, _, _, _, _)
ExtendRing(ring, mem, ways, usedSet, im) ==
  LET j == FirstConnection(ring, ways, usedSet)
  IN  IF Len(ring) = 0 \/ j = 0
      THEN [pts |-> ring, mem |-> mem, used |-> usedSet, ways |-> ways]
      ELSE LET c == ConnCase(ring, ways[j])
           IN  ExtendRing(SpliceRing(ring, ways[j], c), SpliceMem(mem, j, c),
                          [ways EXCEPT ![j] = WayAfterSplice(ways[j], c, im)],
                          MarkUsed(usedSet, j), im)

\* The outer for loop from index k on.
RECURSIVE StitchFrom(_, _, _, _)
StitchFrom(ways, k, usedSet, im) ==
  IF k > Len(ways) THEN <<>>
  ELSE IF k \in usedSet THEN StitchFrom(ways, k + 1, usedSet, im)
  ELSE LET r == ExtendRing(ways[k], <<[j |-> k, rev |-> FALSE]>>, ways,
                           MarkUsed(usedSet, k), im)
       IN  <<[pts |-> r.pts, mem |-> r.mem]>> \o StitchFrom(r.ways, k + 1, r.used, im)

\* Mutant of StitchRings: the client's single-way shortcut returns the way
\* itself, not a list holding it.
StitchRingsUnwrapped(ways, im) ==
  IF Len(ways) = 0 THEN <<>>
  ELSE IF im = "ts" /\ Len(ways) = 1
       THEN [k \in 1..Len(ways[1]) |->
               [pts |-> ways[1][k], mem |-> <<[j |-> 1, rev |-> FALSE]>>]]
  ELSE StitchFrom(ways, 1, {}, im)

\* The whole assembler on a list of non-empty ways; the client returns a
\* single way as it is.
StitchRings(ways, im) ==
  IF Len(ways) = 0 THEN <<>>
  ELSE IF im = "ts" /\ Len(ways) = 1
       THEN <<[pts |-> ways[1], mem |-> <<[j |-> 1, rev |-> FALSE]>>]>>
  ELSE StitchFrom(ways, 1, {}, im)

PtsOf(rs) == [k \in 1..Len(rs) |-> rs[k].pts]
MemOf(rs) == [k \in 1..Len(rs) |-> rs[k].mem]

\* outerWays.reduce((acc, way) => acc.concat(way), [])
RECURSIVE Concatenated(_)
Concatenated(ways) ==
  IF Len(ways) = 0 THEN <<>> ELSE Head(ways) \o Concatenated(Tail(ways))

\* The park parser's coordinates for a relation.
ParkRings(ways) ==
  IF Len(ways) = 0 THEN <<>>
  ELSE IF Len(ways) = 1 THEN <<ways[1]>>
  ELSE <<Concatenated(ways)>>

----------------------------------------------------------------------------
\* The inputs.

Corners == {Pt(0, 0), Pt(Degree, 0), Pt(Degree, Degree), Pt(0, Degree)}
NearPts == {Pt(0, 0), Pt(1, 1), Pt(2, 1)}
LongPts == {Pt(0, 0), Pt(1, 1), Pt(1, 4)}
Roles == {"outer", "inner", "", "subarea"}

SeqsUpTo(S, n) == UNION {[1..k -> S] : k \in 1..n}

\* The sides of the one-degree square and its diagonal through (0,0), as
\* two-point ways in both directions.
SquareWays ==
  {w \in [1..2 -> Corners] :
     \/ Abs(w[1].lon - w[2].lon) + Abs(w[1].lat - w[2].lat) = Degree
     \/ {w[1], w[2]} = {Pt(0, 0), Pt(Degree, Degree)}}

AsOuter(ws) == [k \in 1..Len(ws) |-> [role |-> "outer", geometry |-> ws[k]]]

OuterInputs ==
  {AsOuter(ws) : ws \in SeqsUpTo(SquareWays, MaxWays)
                     \cup SeqsUpTo(SeqsUpTo(NearPts, 2), MaxWays)
                     \cup SeqsUpTo(SeqsUpTo(LongPts, MaxLen), 2)}

RoleGeometries == {<<>>, <<Pt(0, 0), Pt(Degree, 0)>>, <<Pt(Degree, 0), Pt(0, Degree)>>}

RoleInputs == SeqsUpTo([role : Roles, geometry : RoleGeometries], 2)

Inputs == OuterInputs \cup RoleInputs

----------------------------------------------------------------------------
\* The state machine.

Init ==
  /\ members \in Inputs
  /\ impl = "none"
  /\ outerWays = <<>>
  /\ used = {}
  /\ rings = <<>>
  /\ currentRing = <<>>
  /\ i = 1
  /\ pc = "start"
  /\ ringMem = <<>>
  /\ curMem = <<>>
  /\ ClientIdle
  /\ ServerIdle
  /\ RenderIdle

\* The filter, the two early returns of the client, or entry into the loop.
EnterStitch(im) ==
  /\ pc = "start"
  /\ impl' = im
  /\ outerWays' = OuterWaysOf(members, im)
  /\ used' = {}
  /\ currentRing' = <<>>
  /\ curMem' = <<>>
  /\ i' = 1
  /\ UNCHANGED <<members, clientVars, serverVars, renderVars>>

ClientEmpty ==
  /\ EnterStitch("ts")
  /\ Len(outerWays') = 0
  /\ rings' = <<>>
  /\ ringMem' = <<>>
  /\ pc' = "done"

ClientSingle ==
  /\ EnterStitch("ts")
  /\ Len(outerWays') = 1
  /\ rings' = <<outerWays'[1]>>
  /\ ringMem' = << <<[j |-> 1, rev |-> FALSE]>> >>
  /\ pc' = "done"

ClientStitch ==
  /\ EnterStitch("ts")
  /\ Len(outerWays') > 1
  /\ rings' = <<>>
  /\ ringMem' = <<>>
  /\ pc' = "for"

ServerEmpty ==
  /\ EnterStitch("cs")
  /\ Len(outerWays') = 0
  /\ rings' = <<>>
  /\ ringMem' = <<>>
  /\ pc' = "done"

ServerStitch ==
  /\ EnterStitch("cs")
  /\ Len(outerWays') > 0
  /\ rings' = <<>>
  /\ ringMem' = <<>>
  /\ pc' = "for"

\* Mutant of SkipUsed: `continue` without the increment of i.
SkipUsedStays ==
  /\ pc = "for"
  /\ i <= Len(outerWays)
  /\ i \in used
  /\ i' = i
  /\ UNCHANGED <<members, impl, outerWays, used, rings, currentRing, pc, ringMem, curMem,
               clientVars, serverVars, renderVars>>

\* for (i ...) { if (used.has(i)) continue
SkipUsed ==
  /\ pc = "for"
  /\ i <= Len(outerWays)
  /\ i \in used
  /\ i' = i + 1
  /\ UNCHANGED <<members, impl, outerWays, used, rings, currentRing, pc, ringMem, curMem,
               clientVars, serverVars, renderVars>>

\* Mutant of SeedRing: the seed is not added to `used`, so the ring can take
\* its own seed as a connection.
SeedRingUnmarked ==
  /\ pc = "for"
  /\ i <= Len(outerWays)
  /\ i \notin used
  /\ currentRing' = outerWays[i]
  /\ used' = used
  /\ curMem' = <<[j |-> i, rev |-> FALSE]>>
  /\ pc' = "while"
  /\ UNCHANGED <<members, impl, outerWays, rings, i, ringMem,
               clientVars, serverVars, renderVars>>

\* let currentRing = [...outerWays[i]]; used.add(i)
SeedRing ==
  /\ pc = "for"
  /\ i <= Len(outerWays)
  /\ i \notin used
  /\ currentRing' = outerWays[i]
  /\ used' = MarkUsed(used, i)
  /\ curMem' = <<[j |-> i, rev |-> FALSE]>>
  /\ pc' = "while"
  /\ UNCHANGED <<members, impl, outerWays, rings, i, ringMem,
               clientVars, serverVars, renderVars>>

\* One pass of the while loop that finds a connection in branch c.
Connect(c) ==
  /\ pc = "while"
  /\ Len(currentRing) > 0
  /\ LET j == FirstConnection(currentRing, outerWays, used)
     IN  /\ j # 0
         /\ ConnCase(currentRing, outerWays[j]) = c
         /\ currentRing' = SpliceRing(currentRing, outerWays[j], c)
         /\ outerWays' = [outerWays EXCEPT ![j] = WayAfterSplice(outerWays[j], c, impl)]
         /\ used' = MarkUsed(used, j)
         /\ curMem' = SpliceMem(curMem, j, c)
         /\ members' = MembersAfterSplice(members, OuterIdx(members, impl)[j], c)
  /\ UNCHANGED <<impl, rings, i, pc, ringMem, clientVars, serverVars, renderVars>>

AppendWay == pc = "while" /\ Connect(1)
AppendReversed == pc = "while" /\ Connect(2)
PrependWay == pc = "while" /\ Connect(3)
PrependReversed == pc = "while" /\ Connect(4)

\* The pass that finds no connection: the while loop ends, rings.push.
CloseRing ==
  /\ pc = "while"
  /\ Len(currentRing) = 0 \/ FirstConnection(currentRing, outerWays, used) = 0
  /\ rings' = Append(rings, currentRing)
  /\ ringMem' = Append(ringMem, curMem)
  /\ i' = i + 1
  /\ pc' = "for"
  /\ UNCHANGED <<members, impl, outerWays, used, currentRing, curMem,
               clientVars, serverVars, renderVars>>

\* return rings
Return ==
  /\ pc = "for"
  /\ i > Len(outerWays)
  /\ pc' = "done"
  /\ UNCHANGED <<members, impl, outerWays, used, rings, currentRing, i, ringMem, curMem,
               clientVars, serverVars, renderVars>>

\* The park parser: filter, then concatenate the outer ways.
ParseParks ==
  /\ pc = "start"
  /\ impl' = "parks"
  /\ outerWays' = OuterWaysOf(members, "parks")
  /\ rings' = ParkRings(outerWays')
  /\ ringMem' = IF Len(outerWays') = 0 THEN <<>>
                ELSE <<[k \in 1..Len(outerWays') |-> [j |-> k, rev |-> FALSE]]>>
  /\ pc' = "done"
  /\ UNCHANGED <<members, used, currentRing, i, curMem, clientVars, serverVars, renderVars>>

Next ==
  \/ ClientEmpty
  \/ ClientSingle
  \/ ClientStitch
  \/ ServerEmpty
  \/ ServerStitch
  \/ SkipUsed
  \/ SeedRing
  \/ AppendWay
  \/ AppendReversed
  \/ PrependWay
  \/ PrependReversed
  \/ CloseRing
  \/ Return
  \/ ParseParks

Spec == Init /\ [][Next]_vars

\* The inputs of the runs followed to their end: ways at one corner of the
\* square and a side away from it, in up to MaxWays members; one or two
\* ways of near points; and the members with other roles.
LiveWays ==
  {w \in SquareWays : Pt(Degree, 0) \in {w[1], w[2]}} \cup {<<Pt(0, Degree), Pt(0, 0)>>}

LiveInputs ==
  {AsOuter(ws) : ws \in SeqsUpTo(LiveWays, MaxWays) \cup SeqsUpTo(SeqsUpTo(NearPts, 2), 2)}
    \cup RoleInputs

LiveInit ==
  /\ members \in LiveInputs
  /\ impl = "none"
  /\ outerWays = <<>>
  /\ used = {}
  /\ rings = <<>>
  /\ currentRing = <<>>
  /\ i = 1
  /\ pc = "start"
  /\ ringMem = <<>>
  /\ curMem = <<>>
  /\ ClientIdle
  /\ ServerIdle
  /\ RenderIdle

\* The loops are sequential code: a step that can be taken is taken.
LiveSpec == LiveInit /\ [][Next]_vars /\ WF_vars(Next)

----------------------------------------------------------------------------
\* The client's fetch effect: the debounced moveend handler and the
\* invocations of fetchMapData.  A bbox string is a name; the data parsed
\* from a response is a name too ("bare" has no roads, parks or water).
\* An invocation runs without interruption up to its first await, so while
\* a call is at "called" nothing else happens.  The world-wrap branch
\* (Math.abs(lonSpan) > 360) cannot be entered after the normalisation of
\* lonSpan and is left out; zoom stands for the whole route condition
\* (approximateZoom < 9 || lonSpan > 200 || latSpan > 60).

MaxMoves == 2

\* approximateZoom < 9: the backend route.
BackendZoom == 9

\* approximateZoom >= 10: the cache is used.
CacheZoom == 10

Bboxes == {"b1", "b2"}
View(bbox, zoom, valid) == [bbox |-> bbox, zoom |-> zoom, valid |-> valid]

\* b1 on the backend route and below the cache zoom, b2 at the cache zoom,
\* and a view that fails the bbox check (west > east && lonSpan > 180).
Views ==
  {View("b1", BackendZoom - 1, TRUE), View("b1", BackendZoom, TRUE),
   View("b2", CacheZoom, TRUE), View("b2", CacheZoom, FALSE)}

NoData == "null"
Payloads == {"d1", "bare"}

\* (cached.roads?.length || 0) > 0 || parks ... || water ...
HasData(d) == d # "bare"

\* `large-bbox-${...}`
LargeKey(bbox) == IF bbox = "b1" THEN "large-bbox-b1" ELSE "large-bbox-b2"

\* The state { roads: [], ..., boundaries: [] } of useState.
InitialMapData == [from |-> "init", data |-> "bare"]

\* What an earlier session left in IndexedDB: nothing, or data for each bbox.
InitialCaches == {[b \in Bboxes |-> NoData], [b \in Bboxes |-> "d1"]}

ClientInit ==
  /\ mounted = "no"
  /\ viewport \in Views
  /\ moves = 0
  /\ timers = {}
  /\ fetchTimeoutRef = 0
  /\ superseded = {}
  /\ queryCounterRef = 0
  /\ lastBboxRef = ""
  /\ rateLimited = FALSE
  /\ cache \in InitialCaches
  /\ mapData = InitialMapData
  /\ isLoading = FALSE
  /\ calls = <<>>
  /\ StitchIdle
  /\ ServerIdle
  /\ RenderIdle

\* A call of fetchMapData that has not run yet; `by` is the timer that made
\* it (0: the effect itself), `atMove` the number of moveend events so far.
\* `check` is the result of the query id comparison: "none" before it,
\* "current" or "stale" after it.
NewCall(by) ==
  [pc |-> "called", qid |-> 0, bbox |-> "", zoom |-> 0, by |-> by, atMove |-> moves,
   data |-> NoData, check |-> "none", outcome |-> "pending"]

Running == Len(calls) > 0 /\ calls[Len(calls)].pc = "called"

\* The promise of fetchMapData resolves, always with undefined; the call's
\* locals are gone.
Resolved(c) ==
  [c EXCEPT !.pc = "done", !.outcome = "void", !.qid = 0, !.bbox = "", !.zoom = 0,
            !.data = NoData]

\* Mutant of ClearTimeout: the pending timer is not cleared.
ClearTimeoutNoop(pending, ref) == pending

\* if (fetchTimeoutRef.current) clearTimeout(fetchTimeoutRef.current)
ClearTimeout(pending, ref) == pending \ {ref}

\* Mutant of IsCurrent: the query id is not compared.
IsCurrentAlways(qid, counter) == TRUE

\* currentQueryId === queryCounterRef.current
IsCurrent(qid, counter) == qid = counter

\* The effect runs: map.on('moveend', debouncedFetch); fetchMapData()
Mount ==
  /\ mounted = "no"
  /\ mounted' = "yes"
  /\ calls' = Append(calls, NewCall(0))
  /\ UNCHANGED <<viewport, moves, timers, fetchTimeoutRef, superseded, queryCounterRef,
                 lastBboxRef, rateLimited, cache, mapData, isLoading>>
  /\ UNCHANGED <<stitchVars, serverVars, renderVars>>

\* The map moved to view v and debouncedFetch runs.
Moveend(v) ==
  /\ mounted = "yes"
  /\ ~Running
  /\ moves < MaxMoves
  /\ viewport' = v
  /\ moves' = moves + 1
  /\ timers' = ClearTimeout(timers, fetchTimeoutRef) \cup {moves'}
  /\ superseded' = superseded \cup (timers \cap {fetchTimeoutRef})
  /\ fetchTimeoutRef' = moves'
  /\ UNCHANGED <<mounted, queryCounterRef, lastBboxRef, rateLimited, cache, mapData,
                 isLoading, calls>>
  /\ UNCHANGED <<stitchVars, serverVars, renderVars>>

\* A pending timer fires: setTimeout calls fetchMapData.
TimerFire(t) ==
  /\ t \in timers
  /\ ~Running
  /\ timers' = timers \ {t}
  /\ calls' = Append(calls, NewCall(t))
  /\ UNCHANGED <<mounted, viewport, moves, fetchTimeoutRef, superseded, queryCounterRef,
                 lastBboxRef, rateLimited, cache, mapData, isLoading>>
  /\ UNCHANGED <<stitchVars, serverVars, renderVars>>

\* The effect's cleanup: map.off, clearTimeout.
Cleanup ==
  /\ mounted = "yes"
  /\ ~Running
  /\ mounted' = "gone"
  /\ timers' = ClearTimeout(timers, fetchTimeoutRef)
  /\ superseded' = superseded \cup (timers \cap {fetchTimeoutRef})
  /\ UNCHANGED <<viewport, moves, fetchTimeoutRef, queryCounterRef, lastBboxRef,
                 rateLimited, cache, mapData, isLoading, calls>>
  /\ UNCHANGED <<stitchVars, serverVars, renderVars>>

\* Date.now() passes rateLimitedUntil.current.
RateLimitExpires ==
  /\ rateLimited
  /\ ~Running
  /\ rateLimited' = FALSE
  /\ UNCHANGED <<mounted, viewport, moves, timers, fetchTimeoutRef, superseded,
                 queryCounterRef, lastBboxRef, cache, mapData, isLoading, calls>>
  /\ UNCHANGED <<stitchVars, serverVars, renderVars>>

\* What fetchMapData never writes: the handler's own state.
debounceVars == <<mounted, viewport, moves, timers, fetchTimeoutRef, superseded>>

\* The call that is running its synchronous part, with the view it reads
\* from the map and, past the bbox check, its query id.
Entered(c) ==
  [c EXCEPT !.qid = queryCounterRef + 1, !.bbox = viewport.bbox, !.zoom = viewport.zoom]

SetCall(n, c) == calls' = [calls EXCEPT ![n] = c]

\* west > east && lonSpan > 180: return before the counter is touched.
StartInvalid ==
  /\ Running
  /\ ~viewport.valid
  /\ isLoading' = FALSE
  /\ SetCall(Len(calls), Resolved(calls[Len(calls)]))
  /\ UNCHANGED <<debounceVars, queryCounterRef, lastBboxRef, rateLimited, cache, mapData>>
  /\ UNCHANGED <<stitchVars, serverVars, renderVars>>

\* The backend route, cacheKey already fetched: skip.
StartBackendSkip ==
  /\ Running
  /\ viewport.valid
  /\ viewport.zoom < BackendZoom
  /\ lastBboxRef = LargeKey(viewport.bbox)
  /\ queryCounterRef' = queryCounterRef + 1
  /\ isLoading' = FALSE
  /\ SetCall(Len(calls), Resolved(Entered(calls[Len(calls)])))
  /\ UNCHANGED <<debounceVars, lastBboxRef, rateLimited, cache, mapData>>
  /\ UNCHANGED <<stitchVars, serverVars, renderVars>>

\* The backend route: await fetch('.../api/boundaries/countries').
StartBackend ==
  /\ Running
  /\ viewport.valid
  /\ viewport.zoom < BackendZoom
  /\ lastBboxRef # LargeKey(viewport.bbox)
  /\ queryCounterRef' = queryCounterRef + 1
  /\ isLoading' = TRUE
  /\ SetCall(Len(calls), [Entered(calls[Len(calls)]) EXCEPT !.pc = "backend"])
  /\ UNCHANGED <<debounceVars, lastBboxRef, rateLimited, cache, mapData>>
  /\ UNCHANGED <<stitchVars, serverVars, renderVars>>

\* if (bbox === lastBboxRef.current) return
StartSameBbox ==
  /\ Running
  /\ viewport.valid
  /\ viewport.zoom >= BackendZoom
  /\ viewport.bbox = lastBboxRef
  /\ queryCounterRef' = queryCounterRef + 1
  /\ SetCall(Len(calls), Resolved(Entered(calls[Len(calls)])))
  /\ UNCHANGED <<debounceVars, lastBboxRef, rateLimited, cache, mapData, isLoading>>
  /\ UNCHANGED <<stitchVars, serverVars, renderVars>>

\* lastBboxRef.current = bbox; if (now < rateLimitedUntil.current) return
StartRateLimited ==
  /\ Running
  /\ viewport.valid
  /\ viewport.zoom >= BackendZoom
  /\ viewport.bbox # lastBboxRef
  /\ rateLimited
  /\ queryCounterRef' = queryCounterRef + 1
  /\ lastBboxRef' = viewport.bbox
  /\ SetCall(Len(calls), Resolved(Entered(calls[Len(calls)])))
  /\ UNCHANGED <<debounceVars, rateLimited, cache, mapData, isLoading>>
  /\ UNCHANGED <<stitchVars, serverVars, renderVars>>

\* lastBboxRef.current = bbox; await getCachedData(bbox)
StartLookup ==
  /\ Running
  /\ viewport.valid
  /\ viewport.zoom >= BackendZoom
  /\ viewport.bbox # lastBboxRef
  /\ ~rateLimited
  /\ queryCounterRef' = queryCounterRef + 1
  /\ lastBboxRef' = viewport.bbox
  /\ SetCall(Len(calls), [Entered(calls[Len(calls)]) EXCEPT !.pc = "lookup"])
  /\ UNCHANGED <<debounceVars, rateLimited, cache, mapData, isLoading>>
  /\ UNCHANGED <<stitchVars, serverVars, renderVars>>

\* cached && approximateZoom >= 10, and hasData
Usable(cached, zoom) == cached # NoData /\ zoom >= CacheZoom /\ HasData(cached)

\* The lookup returns usable data and the query is current: setMapData(cached).
CacheHit(n) ==
  /\ ~Running
  /\ calls[n].pc = "lookup"
  /\ Usable(cache[calls[n].bbox], calls[n].zoom)
  /\ IsCurrent(calls[n].qid, queryCounterRef)
  /\ mapData' = [from |-> calls[n].bbox, data |-> cache[calls[n].bbox]]
  /\ SetCall(n, Resolved([calls[n] EXCEPT !.check = "current"]))
  /\ UNCHANGED <<debounceVars, queryCounterRef, lastBboxRef, rateLimited, cache, isLoading>>
  /\ UNCHANGED <<stitchVars, serverVars, renderVars>>

\* The lookup returns usable data for a query that is no longer current.
CacheHitStale(n) ==
  /\ ~Running
  /\ calls[n].pc = "lookup"
  /\ Usable(cache[calls[n].bbox], calls[n].zoom)
  /\ ~IsCurrent(calls[n].qid, queryCounterRef)
  /\ SetCall(n, Resolved([calls[n] EXCEPT !.check = "stale"]))
  /\ UNCHANGED <<debounceVars, queryCounterRef, lastBboxRef, rateLimited, cache, mapData,
                 isLoading>>
  /\ UNCHANGED <<stitchVars, serverVars, renderVars>>

\* The lookup gives nothing usable (no entry, a read error, low zoom, no
\* data): setIsLoading(true) and the Overpass request goes out.
CacheMiss(n) ==
  /\ ~Running
  /\ calls[n].pc = "lookup"
  /\ \E cached \in {cache[calls[n].bbox], NoData} : ~Usable(cached, calls[n].zoom)
  /\ isLoading' = TRUE
  /\ SetCall(n, [calls[n] EXCEPT !.pc = "overpass"])
  /\ UNCHANGED <<debounceVars, queryCounterRef, lastBboxRef, rateLimited, cache, mapData>>
  /\ UNCHANGED <<stitchVars, serverVars, renderVars>>

\* What every failed Overpass request ends in: a console message,
\* setIsLoading(false) (at the return or in the finally block), and the
\* promise resolves.
Failed(n) ==
  /\ ~Running
  /\ calls[n].pc = "overpass"
  /\ isLoading' = FALSE
  /\ SetCall(n, Resolved(calls[n]))
  /\ UNCHANGED <<debounceVars, queryCounterRef, lastBboxRef, cache, mapData>>
  /\ UNCHANGED <<stitchVars, serverVars, renderVars>>

\* response.status === 429: rateLimitedUntil.current = Date.now() + 120000
OverpassRateLimited(n) == Failed(n) /\ rateLimited' = TRUE

\* response.status === 504
OverpassTimeout(n) == Failed(n) /\ UNCHANGED rateLimited

\* response.status === 400
OverpassTooLarge(n) == Failed(n) /\ UNCHANGED rateLimited

\* !response.ok (throw new Error) or fetch / json() throwing: the catch block.
OverpassError(n) == Failed(n) /\ UNCHANGED rateLimited

\* The response is parsed into data d and the query is current:
\* setMapData(mapData); await setCachedData(bbox, mapData)
OverpassOk(n) ==
  /\ ~Running
  /\ calls[n].pc = "overpass"
  /\ IsCurrent(calls[n].qid, queryCounterRef)
  /\ \E d \in Payloads :
       /\ mapData' = [from |-> calls[n].bbox, data |-> d]
       /\ SetCall(n, [calls[n] EXCEPT !.pc = "put", !.data = d, !.check = "current"])
  /\ UNCHANGED <<debounceVars, queryCounterRef, lastBboxRef, rateLimited, cache, isLoading>>
  /\ UNCHANGED <<stitchVars, serverVars, renderVars>>

\* The response is parsed but the query is stale: 'Ignoring stale query'.
OverpassStale(n) ==
  /\ ~Running
  /\ calls[n].pc = "overpass"
  /\ ~IsCurrent(calls[n].qid, queryCounterRef)
  /\ isLoading' = FALSE
  /\ SetCall(n, Resolved([calls[n] EXCEPT !.check = "stale"]))
  /\ UNCHANGED <<debounceVars, queryCounterRef, lastBboxRef, rateLimited, cache, mapData>>
  /\ UNCHANGED <<stitchVars, serverVars, renderVars>>

\* setCachedData: store.put({ bbox, data, ... }), or an error it swallows;
\* then the finally block.
Put(n) ==
  /\ ~Running
  /\ calls[n].pc = "put"
  /\ \E stored \in BOOLEAN :
       cache' = IF stored THEN [cache EXCEPT ![calls[n].bbox] = calls[n].data] ELSE cache
  /\ SetCall(n, Resolved(calls[n]))
  /\ isLoading' = FALSE
  /\ UNCHANGED <<debounceVars, queryCounterRef, lastBboxRef, rateLimited, mapData>>
  /\ UNCHANGED <<stitchVars, serverVars, renderVars>>

\* The backend answers !response.ok, or the fetch throws.
BackendFails(n) ==
  /\ ~Running
  /\ calls[n].pc = "backend"
  /\ isLoading' = FALSE
  /\ SetCall(n, Resolved(calls[n]))
  /\ UNCHANGED <<debounceVars, queryCounterRef, lastBboxRef, rateLimited, cache, mapData>>
  /\ UNCHANGED <<stitchVars, serverVars, renderVars>>

\* The backend's boundaries arrive and the query is current.
BackendOk(n) ==
  /\ ~Running
  /\ calls[n].pc = "backend"
  /\ IsCurrent(calls[n].qid, queryCounterRef)
  /\ mapData' = [from |-> "backend", data |-> "boundaries"]
  /\ lastBboxRef' = LargeKey(calls[n].bbox)
  /\ isLoading' = FALSE
  /\ SetCall(n, Resolved([calls[n] EXCEPT !.check = "current"]))
  /\ UNCHANGED <<debounceVars, queryCounterRef, rateLimited, cache>>
  /\ UNCHANGED <<stitchVars, serverVars, renderVars>>

\* The backend's boundaries arrive for a stale query.
BackendStale(n) ==
  /\ ~Running
  /\ calls[n].pc = "backend"
  /\ ~IsCurrent(calls[n].qid, queryCounterRef)
  /\ isLoading' = FALSE
  /\ SetCall(n, Resolved([calls[n] EXCEPT !.check = "stale"]))
  /\ UNCHANGED <<debounceVars, queryCounterRef, lastBboxRef, rateLimited, cache, mapData>>
  /\ UNCHANGED <<stitchVars, serverVars, renderVars>>

ClientNext ==
  \/ Mount
  \/ \E v \in Views : Moveend(v)
  \/ \E t \in timers : TimerFire(t)
  \/ Cleanup
  \/ RateLimitExpires
  \/ StartInvalid
  \/ StartBackendSkip
  \/ StartBackend
  \/ StartSameBbox
  \/ StartRateLimited
  \/ StartLookup
  \/ \E n \in 1..Len(calls) : CacheHit(n)
  \/ \E n \in 1..Len(calls) : CacheHitStale(n)
  \/ \E n \in 1..Len(calls) : CacheMiss(n)
  \/ \E n \in 1..Len(calls) : OverpassRateLimited(n)
  \/ \E n \in 1..Len(calls) : OverpassTimeout(n)
  \/ \E n \in 1..Len(calls) : OverpassTooLarge(n)
  \/ \E n \in 1..Len(calls) : OverpassError(n)
  \/ \E n \in 1..Len(calls) : OverpassOk(n)
  \/ \E n \in 1..Len(calls) : OverpassStale(n)
  \/ \E n \in 1..Len(calls) : Put(n)
  \/ \E n \in 1..Len(calls) : BackendFails(n)
  \/ \E n \in 1..Len(calls) : BackendOk(n)
  \/ \E n \in 1..Len(calls) : BackendStale(n)

ClientSpec == ClientInit /\ [][ClientNext]_vars

\* The runs in which every provider request succeeds: no Overpass or backend
\* failure, hence no rate-limit window.
AllSucceedNext ==
  \/ Mount
  \/ \E v \in Views : Moveend(v)
  \/ \E t \in timers : TimerFire(t)
  \/ Cleanup
  \/ StartInvalid
  \/ StartBackendSkip
  \/ StartBackend
  \/ StartSameBbox
  \/ StartLookup
  \/ \E n \in 1..Len(calls) : CacheHit(n)
  \/ \E n \in 1..Len(calls) : CacheHitStale(n)
  \/ \E n \in 1..Len(calls) : CacheMiss(n)
  \/ \E n \in 1..Len(calls) : OverpassOk(n)
  \/ \E n \in 1..Len(calls) : OverpassStale(n)
  \/ \E n \in 1..Len(calls) : Put(n)
  \/ \E n \in 1..Len(calls) : BackendOk(n)
  \/ \E n \in 1..Len(calls) : BackendStale(n)

AllSucceedSpec == ClientInit /\ [][AllSucceedNext]_vars

----------------------------------------------------------------------------
\* The server: GetCountries under concurrent requests.  Each thread serves
\* one request; the list built by pass k of ProcessBoundaries is k.

MaxThreads == 3
Threads == 1..MaxThreads

NoResponse == [status |-> "none", body |-> 0]

ServerInit ==
  /\ cachedBoundaries = 0
  /\ lockOwner = 0
  /\ tpc = [t \in Threads |-> "idle"]
  /\ response = [t \in Threads |-> NoResponse]
  /\ passes = 0
  /\ StitchIdle
  /\ ClientIdle
  /\ RenderIdle

\* Mutant of StillNull: the check inside the lock is missing.
StillNullUnchecked(cached) == TRUE

\* if (_cachedBoundaries == null), inside the lock
StillNull(cached) == cached = 0

Goto(t, where) == tpc' = [tpc EXCEPT ![t] = where]

Respond(t, status, body) ==
  response' = [response EXCEPT ![t] = [status |-> status, body |-> body]]

\* A request arrives.
Request(t) ==
  /\ tpc[t] = "idle"
  /\ Goto(t, "check")
  /\ UNCHANGED <<cachedBoundaries, lockOwner, response, passes>>
  /\ UNCHANGED <<stitchVars, clientVars, renderVars>>

\* if (_cachedBoundaries == null), outside the lock: null.
CheckMiss(t) ==
  /\ tpc[t] = "check"
  /\ cachedBoundaries = 0
  /\ Goto(t, "lock")
  /\ UNCHANGED <<cachedBoundaries, lockOwner, response, passes>>
  /\ UNCHANGED <<stitchVars, clientVars, renderVars>>

\* The same check, not null: straight to the return.
CheckHit(t) ==
  /\ tpc[t] = "check"
  /\ cachedBoundaries # 0
  /\ Goto(t, "return")
  /\ UNCHANGED <<cachedBoundaries, lockOwner, response, passes>>
  /\ UNCHANGED <<stitchVars, clientVars, renderVars>>

\* lock (_lock)
AcquireLock(t) ==
  /\ tpc[t] = "lock"
  /\ lockOwner = 0
  /\ lockOwner' = t
  /\ Goto(t, "locked")
  /\ UNCHANGED <<cachedBoundaries, response, passes>>
  /\ UNCHANGED <<stitchVars, clientVars, renderVars>>

\* The check inside the lock: still null, go on to load the file.
RecheckMiss(t) ==
  /\ tpc[t] = "locked"
  /\ StillNull(cachedBoundaries)
  /\ Goto(t, "load")
  /\ UNCHANGED <<cachedBoundaries, lockOwner, response, passes>>
  /\ UNCHANGED <<stitchVars, clientVars, renderVars>>

\* The check inside the lock: another thread has set the list meanwhile.
RecheckHit(t) ==
  /\ tpc[t] = "locked"
  /\ ~StillNull(cachedBoundaries)
  /\ lockOwner' = 0
  /\ Goto(t, "return")
  /\ UNCHANGED <<cachedBoundaries, response, passes>>
  /\ UNCHANGED <<stitchVars, clientVars, renderVars>>

\* The file is not there: return NotFound(...), leaving the lock.
FileMissing(t) ==
  /\ tpc[t] = "load"
  /\ lockOwner' = 0
  /\ Respond(t, "404", 0)
  /\ Goto(t, "done")
  /\ UNCHANGED <<cachedBoundaries, passes>>
  /\ UNCHANGED <<stitchVars, clientVars, renderVars>>

\* Deserialize returns null (StatusCode(500, ...)) or reading or parsing
\* throws (the catch block's StatusCode(500, ...)).
LoadFails(t) ==
  /\ tpc[t] = "load"
  /\ lockOwner' = 0
  /\ Respond(t, "500", 0)
  /\ Goto(t, "done")
  /\ UNCHANGED <<cachedBoundaries, passes>>
  /\ UNCHANGED <<stitchVars, clientVars, renderVars>>

\* The elements are loaded; ProcessBoundaries is called.
LoadOk(t) ==
  /\ tpc[t] = "load"
  /\ Goto(t, "process")
  /\ UNCHANGED <<cachedBoundaries, lockOwner, response, passes>>
  /\ UNCHANGED <<stitchVars, clientVars, renderVars>>

\* ProcessBoundaries throws: the catch block answers 500, nothing is cached.
ProcessThrows(t) ==
  /\ tpc[t] = "process"
  /\ lockOwner' = 0
  /\ Respond(t, "500", 0)
  /\ Goto(t, "done")
  /\ UNCHANGED <<cachedBoundaries, passes>>
  /\ UNCHANGED <<stitchVars, clientVars, renderVars>>

\* ProcessBoundaries returns its list.
ProcessDone(t) ==
  /\ tpc[t] = "process"
  /\ passes' = passes + 1
  /\ Goto(t, "store")
  /\ UNCHANGED <<cachedBoundaries, lockOwner, response>>
  /\ UNCHANGED <<stitchVars, clientVars, renderVars>>

\* _cachedBoundaries = <the list>
Store(t) ==
  /\ tpc[t] = "store"
  /\ cachedBoundaries' = passes
  /\ Goto(t, "unlock")
  /\ UNCHANGED <<lockOwner, response, passes>>
  /\ UNCHANGED <<stitchVars, clientVars, renderVars>>

\* The end of the lock block.
Unlock(t) ==
  /\ tpc[t] = "unlock"
  /\ lockOwner' = 0
  /\ Goto(t, "return")
  /\ UNCHANGED <<cachedBoundaries, response, passes>>
  /\ UNCHANGED <<stitchVars, clientVars, renderVars>>

\* return Ok(_cachedBoundaries)
ReturnOk(t) ==
  /\ tpc[t] = "return"
  /\ Respond(t, "200", cachedBoundaries)
  /\ Goto(t, "done")
  /\ UNCHANGED <<cachedBoundaries, lockOwner, passes>>
  /\ UNCHANGED <<stitchVars, clientVars, renderVars>>

ServerNext ==
  \/ \E t \in Threads : Request(t)
  \/ \E t \in Threads : CheckMiss(t)
  \/ \E t \in Threads : CheckHit(t)
  \/ \E t \in Threads : AcquireLock(t)
  \/ \E t \in Threads : RecheckMiss(t)
  \/ \E t \in Threads : RecheckHit(t)
  \/ \E t \in Threads : FileMissing(t)
  \/ \E t \in Threads : LoadFails(t)
  \/ \E t \in Threads : LoadOk(t)
  \/ \E t \in Threads : ProcessThrows(t)
  \/ \E t \in Threads : ProcessDone(t)
  \/ \E t \in Threads : Store(t)
  \/ \E t \in Threads : Unlock(t)
  \/ \E t \in Threads : ReturnOk(t)

ServerSpec == ServerInit /\ [][ServerNext]_vars

----------------------------------------------------------------------------
\* The renderer: one boundary ring of mapData is split at the antimeridian
\* and its segments are added to the canvas path.  The rings of mapData hold
\* [lon, lat] pairs of numbers, so the loop's guard against malformed
\* coordinates never skips a point.

MaxRing == 6

\* 180 degrees, in units.
HalfTurn == 180 * Degree

\* Longitudes 160, 180 and 340 degrees apart.
RenderLons == {-170 * Degree, -10 * Degree, 170 * Degree}

RenderRings == UNION {[1..n -> {<<lon, 0>> : lon \in RenderLons}] : n \in 1..MaxRing}

RenderInit ==
  /\ actualRing \in RenderRings
  /\ ri = 1
  /\ segments = <<>>
  /\ currentSegment = <<>>
  /\ subPaths = <<>>
  /\ rpc = "begin"
  /\ StitchIdle
  /\ ClientIdle
  /\ ServerIdle

\* Mutant of Jumps: the difference is taken without Math.abs.
JumpsEastOnly(prevCoord, coord) == coord[1] - prevCoord[1] > HalfTurn

\* Math.abs(coord[0] - prevCoord[0]) > 180
Jumps(prevCoord, coord) == Abs(coord[1] - prevCoord[1]) > HalfTurn

\* if (actualRing && actualRing.length > 2): a shorter ring is not drawn.
SkipShortRing ==
  /\ rpc = "begin"
  /\ Len(actualRing) <= 2
  /\ rpc' = "done"
  /\ UNCHANGED <<actualRing, ri, segments, currentSegment, subPaths>>
  /\ UNCHANGED <<stitchVars, clientVars, serverVars>>

BeginSplit ==
  /\ rpc = "begin"
  /\ Len(actualRing) > 2
  /\ rpc' = "split"
  /\ UNCHANGED <<actualRing, ri, segments, currentSegment, subPaths>>
  /\ UNCHANGED <<stitchVars, clientVars, serverVars>>

\* A pass of the for loop at a longitude jump: the current segment is
\* pushed and a new one starts with this point.
SplitHere ==
  /\ rpc = "split"
  /\ ri <= Len(actualRing)
  /\ ri > 1
  /\ Jumps(actualRing[ri - 1], actualRing[ri])
  /\ segments' = IF Len(currentSegment) > 0 THEN Append(segments, currentSegment)
                 ELSE segments
  /\ currentSegment' = <<actualRing[ri]>>
  /\ ri' = ri + 1
  /\ UNCHANGED <<actualRing, subPaths, rpc>>
  /\ UNCHANGED <<stitchVars, clientVars, serverVars>>

\* A pass of the for loop without a jump: currentSegment.push(coord).
PushCoord ==
  /\ rpc = "split"
  /\ ri <= Len(actualRing)
  /\ ~(ri > 1 /\ Jumps(actualRing[ri - 1], actualRing[ri]))
  /\ currentSegment' = Append(currentSegment, actualRing[ri])
  /\ ri' = ri + 1
  /\ UNCHANGED <<actualRing, segments, subPaths, rpc>>
  /\ UNCHANGED <<stitchVars, clientVars, serverVars>>

\* After the loop the last segment is pushed; segments.forEach starts (ri
\* now counts the segments).
EndSplit ==
  /\ rpc = "split"
  /\ ri > Len(actualRing)
  /\ segments' = IF Len(currentSegment) > 0 THEN Append(segments, currentSegment)
                 ELSE segments
  /\ ri' = 1
  /\ rpc' = "draw"
  /\ UNCHANGED <<actualRing, currentSegment, subPaths>>
  /\ UNCHANGED <<stitchVars, clientVars, serverVars>>

\* if (segment.length > 2): moveTo, lineTo ..., closePath.
DrawSegment ==
  /\ rpc = "draw"
  /\ ri <= Len(segments)
  /\ Len(segments[ri]) > 2
  /\ subPaths' = Append(subPaths, segments[ri])
  /\ ri' = ri + 1
  /\ UNCHANGED <<actualRing, segments, currentSegment, rpc>>
  /\ UNCHANGED <<stitchVars, clientVars, serverVars>>

\* A segment of one or two points adds nothing to the path.
SkipSegment ==
  /\ rpc = "draw"
  /\ ri <= Len(segments)
  /\ Len(segments[ri]) <= 2
  /\ ri' = ri + 1
  /\ UNCHANGED <<actualRing, segments, currentSegment, subPaths, rpc>>
  /\ UNCHANGED <<stitchVars, clientVars, serverVars>>

EndDraw ==
  /\ rpc = "draw"
  /\ ri > Len(segments)
  /\ rpc' = "done"
  /\ UNCHANGED <<actualRing, ri, segments, currentSegment, subPaths>>
  /\ UNCHANGED <<stitchVars, clientVars, serverVars>>

RenderNext ==
  \/ SkipShortRing
  \/ BeginSplit
  \/ SplitHere
  \/ PushCoord
  \/ EndSplit
  \/ DrawSegment
  \/ SkipSegment
  \/ EndDraw

RenderSpec == RenderInit /\ [][RenderNext]_vars

----------------------------------------------------------------------------
\* The entry of fetchMapData on concrete bounds (CanvasRenderer.tsx 35-79,
\* 239-280, 310-316): the normalisation of map.getBounds(), the bbox
\* strings and the choice of the route.  Latitudes and longitudes are whole
\* degrees.  The invocations follow one another without overlapping (the
\* overlapping ones are ClientSpec's subject): an invocation that only
\* fetches boundaries runs to its end in one step, and one on the Overpass
\* route is followed up to its await of getCachedData; what it does after
\* that reads and writes neither the bounds, the bbox nor lastBboxRef.
\* `calls` holds the record of the last invocation.

MaxFetches == 2

\* Math.max(-90, Math.min(90, ...))
MaxLat == 90

\* while (west < -180) west += 360
DateLine == 180
FullTurn == 360

\* lonSpan > 200 || latSpan > 60
WideLon == 200
WideLat == 60

\* What Leaflet's getBounds() returns: west below east, the longitudes not
\* wrapped, the latitudes possibly beyond the poles.
RawLons == {-600, -180, 179, 181, 182, 350, 900}
RawLatPairs == {<<10, 20>>, <<-100, 100>>}
RawBounds ==
  {b \in {[south |-> p[1], north |-> p[2], west |-> w, east |-> e] :
            p \in RawLatPairs, w \in RawLons, e \in RawLons} : b.west < b.east}

\* map.getZoom(): below 9, or at 10.
Zooms == {BackendZoom - 1, CacheZoom}

ClampLat(x) ==
  LET low == IF x < MaxLat THEN x ELSE MaxLat
  IN  IF low > -MaxLat THEN low ELSE -MaxLat

\* The two while loops, one after the other.
RECURSIVE WrapUp(_)
WrapUp(x) == IF x < -DateLine THEN WrapUp(x + FullTurn) ELSE x

RECURSIVE WrapDown(_)
WrapDown(x) == IF x > DateLine THEN WrapDown(x - FullTurn) ELSE x

WrapLon(x) == WrapDown(WrapUp(x))

\* Mutant of LonSpan: a negative span is left as it is.
LonSpanUnfixed(west, east) == east - west

\* let lonSpan = east - west; if (lonSpan < 0) lonSpan += 360
LonSpan(west, east) ==
  IF east - west < 0 THEN east - west + FullTurn ELSE east - west

\* south, north, west, east and lonSpan as the code holds them at line 54.
NormalizeBounds(b) ==
  LET west == WrapLon(b.west)
      east == WrapLon(b.east)
  IN  [south |-> ClampLat(b.south), north |-> ClampLat(b.north),
       west |-> west, east |-> east, lonSpan |-> LonSpan(west, east)]

\* west > east && lonSpan > 180
IsInvalidBbox(nb) == nb.west > nb.east /\ nb.lonSpan > DateLine

\* `${south},${west},${north},${east}`
BboxString(south, west, north, east) ==
  ToString(south) \o "," \o ToString(west) \o "," \o ToString(north) \o ","
    \o ToString(east)

\* const bboxes = crossesDateline ? [..., ...] : [...]
BboxesOf(nb) ==
  IF nb.west > nb.east
  THEN <<BboxString(nb.south, nb.west, nb.north, DateLine),
         BboxString(nb.south, -DateLine, nb.north, nb.east)>>
  ELSE <<BboxString(nb.south, nb.west, nb.north, nb.east)>>

\* const bbox = bboxes[0]
BboxOf(nb) == BboxesOf(nb)[1]

\* `large-bbox-${Math.round(south)}-...`; Math.round leaves a whole number
\* of degrees as it is.
CacheKeyOf(nb) ==
  "large-bbox-" \o ToString(nb.south) \o "-" \o ToString(nb.west) \o "-"
    \o ToString(nb.north) \o "-" \o ToString(nb.east)

WorldWrapKey == "world-wrap-boundaries"

\* The branch an invocation takes.
RouteOf(nb, zoom) ==
  IF IsInvalidBbox(nb) THEN "invalid"
  ELSE IF Abs(nb.lonSpan) > FullTurn THEN "worldwrap"
  ELSE IF zoom < BackendZoom \/ nb.lonSpan > WideLon \/ nb.north - nb.south > WideLat
       THEN "backend"
  ELSE "overpass"

\* The locals of an invocation; qid is 0 when it returned before taking one.
Invocation(nb, route, qid) ==
  [south |-> nb.south, north |-> nb.north, west |-> nb.west, east |-> nb.east,
   lonSpan |-> nb.lonSpan, bbox |-> BboxOf(nb), route |-> route, qid |-> qid]

BoundsInit ==
  /\ mounted = "yes"
  /\ viewport \in RawBounds
  /\ moves = 0
  /\ timers = {}
  /\ fetchTimeoutRef = 0
  /\ superseded = {}
  /\ queryCounterRef = 0
  /\ lastBboxRef = ""
  /\ rateLimited = FALSE
  /\ cache = <<>>
  /\ mapData = InitialMapData
  /\ isLoading = FALSE
  /\ calls = <<>>
  /\ StitchIdle
  /\ ServerIdle
  /\ RenderIdle

\* The map comes to rest on other bounds.
Pan(b) ==
  /\ queryCounterRef < MaxFetches
  /\ b # viewport
  /\ viewport' = b
  /\ UNCHANGED <<mounted, moves, timers, fetchTimeoutRef, superseded, queryCounterRef,
                 lastBboxRef, rateLimited, cache, mapData, isLoading, calls>>
  /\ UNCHANGED <<stitchVars, serverVars, renderVars>>

\* The invalid-bbox return: setIsLoading(false), before the counter.
InvalidBounds ==
  /\ queryCounterRef < MaxFetches
  /\ LET nb == NormalizeBounds(viewport)
     IN  /\ IsInvalidBbox(nb)
         /\ calls' = <<Invocation(nb, "invalid", 0)>>
  /\ isLoading' = FALSE
  /\ UNCHANGED <<debounceVars, queryCounterRef, lastBboxRef, rateLimited, cache, mapData>>
  /\ UNCHANGED <<stitchVars, serverVars, renderVars>>

\* The two branches that fetch only country boundaries, each to its end:
\* the world-wrap branch (Overpass, 74-221) and the backend route (239-280).
BoundariesOnly ==
  /\ queryCounterRef < MaxFetches
  /\ \E zoom \in Zooms :
       LET nb    == NormalizeBounds(viewport)
           route == RouteOf(nb, zoom)
           key   == IF route = "worldwrap" THEN WorldWrapKey ELSE CacheKeyOf(nb)
       IN  /\ route \in {"worldwrap", "backend"}
           /\ queryCounterRef' = queryCounterRef + 1
           /\ calls' = <<Invocation(nb, route, queryCounterRef')>>
           /\ IF lastBboxRef = key
              THEN UNCHANGED <<lastBboxRef, mapData>>
              ELSE \E ok \in BOOLEAN :
                     /\ lastBboxRef' = IF ok THEN key ELSE lastBboxRef
                     /\ mapData' = IF ok THEN [from |-> route, data |-> "boundaries"]
                                   ELSE mapData
           /\ isLoading' = IF route = "worldwrap" THEN isLoading ELSE FALSE
  /\ UNCHANGED <<debounceVars, rateLimited, cache>>
  /\ UNCHANGED <<stitchVars, serverVars, renderVars>>

\* The Overpass route: if (bbox === lastBboxRef.current) return
SameBbox ==
  /\ queryCounterRef < MaxFetches
  /\ \E zoom \in Zooms :
       LET nb == NormalizeBounds(viewport)
       IN  /\ RouteOf(nb, zoom) = "overpass"
           /\ BboxOf(nb) = lastBboxRef
           /\ queryCounterRef' = queryCounterRef + 1
           /\ calls' = <<Invocation(nb, "overpass", queryCounterRef')>>
  /\ UNCHANGED <<debounceVars, lastBboxRef, rateLimited, cache, mapData, isLoading>>
  /\ UNCHANGED <<stitchVars, serverVars, renderVars>>

\* The Overpass route: lastBboxRef.current = bbox, and on to the cache.
NewBbox ==
  /\ queryCounterRef < MaxFetches
  /\ \E zoom \in Zooms :
       LET nb == NormalizeBounds(viewport)
       IN  /\ RouteOf(nb, zoom) = "overpass"
           /\ BboxOf(nb) # lastBboxRef
           /\ lastBboxRef' = BboxOf(nb)
           /\ queryCounterRef' = queryCounterRef + 1
           /\ calls' = <<Invocation(nb, "overpass", queryCounterRef')>>
  /\ UNCHANGED <<debounceVars, rateLimited, cache, mapData, isLoading>>
  /\ UNCHANGED <<stitchVars, serverVars, renderVars>>

BoundsNext ==
  \/ \E b \in RawBounds : Pan(b)
  \/ InvalidBounds
  \/ BoundariesOnly
  \/ SameBbox
  \/ NewBbox

BoundsSpec == BoundsInit /\ [][BoundsNext]_vars

----------------------------------------------------------------------------
\* What the claims speak about.

\* The runs of the stitcher proper (the park parser does not stitch).
Stitching == impl \in {"ts", "cs"}
Finished == pc = "done" /\ Stitching

\* The input segments: the ways as the filter produced them.
Ways0 == OuterWaysOf(members, impl)

\* Every ring's history, the ring under construction included.
AllMem == IF pc = "while" THEN Append(ringMem, curMem) ELSE ringMem

MemIdx(mem) == {mem[k].j : k \in 1..Len(mem)}

Oriented(m, ways) == IF m.rev THEN Reverse(ways[m.j]) ELSE ways[m.j]

\* The members of a ring in ring order, each without its last point except
\* the last one.
RECURSIVE Joined(_, _)
Joined(mem, ways) ==
  IF Len(mem) = 0 THEN <<>>
  ELSE IF Len(mem) = 1 THEN Oriented(mem[1], ways)
  ELSE DropLast(Oriented(mem[1], ways)) \o Joined(Tail(mem), ways)

PointsOf(ways) == UNION {{ways[k][n] : n \in 1..Len(ways[k])} : k \in 1..Len(ways)}

RECURSIVE SumLen(_)
SumLen(ways) == IF Len(ways) = 0 THEN 0 ELSE Len(Head(ways)) + SumLen(Tail(ways))

StartOf(w, rev) == IF rev THEN w[Len(w)] ELSE w[1]
EndOf(w, rev) == IF rev THEN w[1] ELSE w[Len(w)]

\* From the open end `from`, the ways of `rest` can be chained, each in
\* some direction, so that the chain ends within epsilon of `home`.
RECURSIVE ChainsHome(_, _, _, _)
ChainsHome(ways, from, rest, home) ==
  IF rest = {} THEN ArePointsClose(from, home)
  ELSE \E j \in rest : \E rev \in BOOLEAN :
         /\ ArePointsClose(from, StartOf(ways[j], rev))
         /\ ChainsHome(ways, EndOf(ways[j], rev), rest \ {j}, home)

\* The ways with indices in S can be arranged, in some order and with some
\* directions, into a closed chain.
FormsLoop(ways, S) ==
  LET m == CHOOSE k \in S : \A n \in S : k <= n
  IN  ChainsHome(ways, ways[m][Len(ways[m])], S \ {m}, ways[m][1])

\* The ways form exactly one loop: all of them together form a loop, and no
\* proper part of them forms a loop of its own.
OneLoop(ways) ==
  /\ Len(ways) >= 1
  /\ FormsLoop(ways, 1..Len(ways))
  /\ \A S \in SUBSET (1..Len(ways)) :
       (S # {} /\ S # 1..Len(ways)) => ~FormsLoop(ways, S)

----------------------------------------------------------------------------
\* C1: every segment index is consumed by exactly one output ring: no
\* index occurs twice in a ring or in two rings at any time, the indices in
\* the rings are the used ones, and at the return none is left out.
C1_Partition ==
  Stitching =>
    /\ Len(rings) = Len(ringMem)
    /\ \A r \in 1..Len(AllMem) : Cardinality(MemIdx(AllMem[r])) = Len(AllMem[r])
    /\ \A r1, r2 \in 1..Len(AllMem) :
         r1 # r2 => MemIdx(AllMem[r1]) \cap MemIdx(AllMem[r2]) = {}
    /\ UNION {MemIdx(AllMem[r]) : r \in 1..Len(AllMem)} \subseteq 1..Len(outerWays)
    /\ pc = "done" =>
         UNION {MemIdx(ringMem[r]) : r \in 1..Len(ringMem)} = 1..Len(outerWays)

\* Two rings came out, one of them spliced from two segments.
C1_Witness ==
  /\ Finished
  /\ Len(rings) = 2
  /\ \E r \in 1..Len(ringMem) : Len(ringMem[r]) = 2

\* C2: no point is fabricated: every returned ring, and the ring under
\* construction after every splice, is the concatenation of its member segments in ring order, verbatim or
\* reversed, with the earlier segment's coincident endpoint dropped at each
\* joint; so each of its points is a point of an input segment.
C2_NoFabrication ==
  LET ways == Ways0
      pts  == PointsOf(ways)
      made(ring, mem) ==
        /\ ring = Joined(mem, ways)
        /\ \A n \in 1..Len(ring) : ring[n] \in pts
  IN  /\ (pc = "while" /\ Stitching) => made(currentRing, curMem)
      /\ Finished => \A r \in 1..Len(rings) : made(rings[r], ringMem[r])

\* A finished ring of three segments, one reversed, one spliced in front of
\* the seed.
C2_Witness ==
  /\ Finished
  /\ \E r \in 1..Len(ringMem) :
       /\ Len(ringMem[r]) = 3
       /\ \E k \in 1..3 : ringMem[r][k].rev
       /\ ringMem[r][1].j # r

\* The scenario of C3.
SegA == <<Pt(0, 0), Pt(Degree, 0)>>
SegB == <<Pt(Degree, 0), Pt(Degree, Degree)>>
SegC == <<Pt(0, Degree), Pt(0, 0)>>
ScenarioABC == members = AsOuter(<<SegA, SegB, SegC>>)
SquareLoop ==
  <<ToCoord(Pt(0, 0)), ToCoord(Pt(Degree, 0)), ToCoord(Pt(Degree, Degree)),
    ToCoord(Pt(0, Degree)), ToCoord(Pt(0, 0))>>

\* The closed loops with the same points and connectivity as `loop`: its
\* rotations, in both directions.
LoopEquivalents(loop) ==
  LET n == Len(loop) - 1
      rot(d) == [k \in 1..(n + 1) |-> loop[((k - 1 + d) % n) + 1]]
  IN  {rot(d) : d \in 0..(n - 1)} \cup {Reverse(rot(d)) : d \in 0..(n - 1)}

\* C3 as stated: A, B, C assemble into one ring that is the closed
\* five-point square loop or a rotation or reflection of it.
C3_ClosedSquare ==
  (Finished /\ ScenarioABC) =>
    /\ Len(rings) = 1
    /\ rings[1] \in LoopEquivalents(SquareLoop)

\* C3 as amended: A, B, C assemble into exactly one ring, the open
\* four-point chain (0,1),(0,0),(1,0),(1,1): C is spliced in front of A+B
\* and nothing closes the ring.
C3_OpenChain ==
  (Finished /\ ScenarioABC) =>
    rings = << <<ToCoord(Pt(0, Degree)), ToCoord(Pt(0, 0)),
                 ToCoord(Pt(Degree, 0)), ToCoord(Pt(Degree, Degree))>> >>

C3_Witness == Finished /\ ScenarioABC /\ Len(rings) = 1

\* C4: when the N segments form exactly one loop, in whatever input order
\* and directions, one ring comes out and its point count is the sum of the
\* segments' point counts minus (N - 1).
C4_LoopPointCount ==
  Finished =>
    \/ Len(rings) = 1 /\ Len(rings[1]) = SumLen(Ways0) - (Len(Ways0) - 1)
    \/ ~OneLoop(Ways0)

\* A loop of three segments was assembled, with a reversal and a splice in
\* front of the seed.
C4_Witness ==
  /\ Finished
  /\ Len(Ways0) = 3
  /\ OneLoop(Ways0)
  /\ \E k \in 1..3 : ringMem[1][k].rev
  /\ ringMem[1][1].j # 1

\* The way list in another order: position k holds way s[k].
Permuted(ways, s) == [k \in 1..Len(ways) |-> ways[s[k]]]

\* The ring membership as a set of sets of way indices, position k of the
\* stitched list standing for way s[k].
Groups(mems, s) == {{s[mems[r][k].j] : k \in 1..Len(mems[r])} : r \in 1..Len(mems)}

\* C5 as stated: for every permutation of the segment list the assembler
\* groups the segments into the same sets.
C5_OrderIndependent ==
  Finished =>
    LET ways == Ways0
        id   == [k \in 1..Len(ways) |-> k]
    IN  \A s \in Permutations(1..Len(ways)) :
          Groups(MemOf(StitchRings(Permuted(ways, s), impl)), s) = Groups(ringMem, id)

\* Some pairing of the two rings' first/last points is within epsilon.
EndpointsTouch(r1, r2) ==
  \/ ArePointsClose(r1[Len(r1)], r2[1])
  \/ ArePointsClose(r1[Len(r1)], r2[Len(r2)])
  \/ ArePointsClose(r1[1], r2[Len(r2)])
  \/ ArePointsClose(r1[1], r2[1])

\* C6: the assembler run on its own output, each ring as one segment in
\* output order, returns the same rings, and no two output rings have
\* endpoints within epsilon in any of the four start/end pairings.
C6_Idempotent ==
  Finished =>
    /\ PtsOf(StitchRings(rings, impl)) = rings
    /\ \A r1, r2 \in 1..Len(rings) : r1 # r2 => ~EndpointsTouch(rings[r1], rings[r2])

\* Two rings came out, one spliced from two segments, and the other starts
\* or ends within epsilon of an inner point of it.
C6_Witness ==
  /\ Finished
  /\ Len(rings) = 2
  /\ \E r1, r2 \in 1..2 :
       /\ r1 # r2
       /\ Len(ringMem[r1]) = 2
       /\ \E n \in 2..(Len(rings[r1]) - 1) :
            \/ ArePointsClose(rings[r1][n], rings[r2][1])
            \/ ArePointsClose(rings[r1][n], rings[r2][Len(rings[r2])])

\* Both coordinate deltas are below epsilon, written out.
WithinEpsilon(p, q) ==
  /\ p[1] - q[1] < EPSILON /\ q[1] - p[1] < EPSILON
  /\ p[2] - q[2] < EPSILON /\ q[2] - p[2] < EPSILON

\* The unused ways with a first or last point within epsilon of the ring's
\* first or last point.
Coincident(ring, ways, usedSet) ==
  {j \in 1..Len(ways) :
     /\ j \notin usedSet
     /\ \E p \in {ring[1], ring[Len(ring)]} :
          \E q \in {ways[j][1], ways[j][Len(ways[j])]} : WithinEpsilon(p, q)}

\* C7: a pass of the connection search splices a candidate exactly when
\* some unused way has an endpoint whose two coordinate deltas to an
\* endpoint of the ring are below epsilon = 0.0001 degree, and the way it
\* splices is such a way; when every unused way is off by epsilon or more
\* on some axis, nothing is spliced and the ring is finished.
C7_Tolerance ==
  [][(pc = "while" /\ Stitching) =>
       LET near == Coincident(currentRing, outerWays, used)
       IN  IF near = {}
           THEN used' = used /\ rings' = Append(rings, currentRing)
           ELSE \E j \in near : used' = used \cup {j} /\ Len(currentRing') > 0
                                /\ rings' = rings]_vars

\* A ring was spliced at a joint whose endpoints differ on both axes, and
\* another ring, off by epsilon on one axis and by less on the other, stayed
\* apart.
C7_Witness ==
  /\ Finished
  /\ Len(rings) = 2
  /\ \E r1, r2 \in 1..2 :
       /\ r1 # r2
       /\ Len(ringMem[r1]) = 2
       /\ LET a == EndOf(Ways0[ringMem[r1][1].j], ringMem[r1][1].rev)
              b == StartOf(Ways0[ringMem[r1][2].j], ringMem[r1][2].rev)
          IN  a[1] # b[1] /\ a[2] # b[2]
       /\ LET e == rings[r1][Len(rings[r1])]
              f == rings[r2][1]
          IN  Abs(e[1] - f[1]) = EPSILON /\ Abs(e[2] - f[2]) < EPSILON

\* The ways of the members with role 'inner'.
InnerWaysOf(ms) ==
  LET idx == FilterIdx(Len(ms), [k \in 1..Len(ms) |->
                                   ms[k].role = "inner" /\ Len(ms[k].geometry) > 0])
  IN  [k \in 1..Len(idx) |-> ToCoords(ms[idx[k]].geometry)]

\* C8 as stated: the rings stitched from the 'inner' members are attached
\* to the feature: each of them is among the rings of its geometry.
C8_InnerRingsAttached ==
  Finished =>
    LET holes == PtsOf(StitchRings(InnerWaysOf(members), impl))
    IN  \A h \in 1..Len(holes) : \E r \in 1..Len(rings) : rings[r] = holes[h]

\* C9 as stated: for the same outer ways the park parser yields the rings
\* the boundary stitcher yields.
C9_ParksStitched ==
  (pc = "done" /\ impl = "parks") =>
    rings = PtsOf(StitchRings(OuterWaysOf(members, "ts"), "ts"))

\* C10 as stated: no ring holds a way of a member whose role is neither
\* 'outer' nor 'inner'.
C10_OtherRolesIgnored ==
  Finished =>
    LET idx == OuterIdx(members, impl)
    IN  \A r \in 1..Len(ringMem) : \A k \in 1..Len(ringMem[r]) :
          members[idx[ringMem[r][k].j]].role \in {"outer", "inner"}

\* C11: a single non-empty segment, closed or not, comes out as exactly one
\* ring with the segment's points, in the same order and number.
C11_SingleSegment ==
  (Finished /\ Len(Ways0) = 1) => rings = <<Ways0[1]>>

\* The server stitcher ran its loops on one closed three-point segment.
C11_Witness ==
  /\ Finished
  /\ impl = "cs"
  /\ Len(Ways0) = 1
  /\ Len(Ways0[1]) = 3
  /\ Ways0[1][1] = Ways0[1][3]
  /\ Len(rings) = 1

\* Two ways have a first or last point within epsilon of each other.
Linked(a, b) ==
  \E p \in {a[1], a[Len(a)]} : \E q \in {b[1], b[Len(b)]} : WithinEpsilon(p, q)

\* The ways of S that a chain of linked ways of S connects to `reached`.
RECURSIVE LinkedFrom(_, _, _)
LinkedFrom(ways, S, reached) ==
  LET more == {k \in S \ reached : \E r \in reached : Linked(ways[r], ways[k])}
  IN  IF more = {} THEN reached ELSE LinkedFrom(ways, S, reached \cup more)

\* C12: segments are joined only at matching endpoints: any two segments of
\* one ring, finished or under construction, are connected by a chain of
\* segments of that ring whose first/last points are within epsilon; so
\* segments that only share interior points, or no points, stay apart.
C12_JoinedAtEndpoints ==
  LET ways == Ways0
      chained(mem) ==
        LET S == MemIdx(mem) IN \A a \in S : LinkedFrom(ways, S, {a}) = S
  IN  /\ (pc = "while" /\ Stitching) => chained(curMem)
      /\ Finished => \A r \in 1..Len(ringMem) : chained(ringMem[r])

\* Two closed three-point segments that share their middle point, and only
\* it, came out as two rings.
C12_Witness ==
  /\ Finished
  /\ Len(Ways0) = 2
  /\ Len(rings) = 2
  /\ \A r \in 1..2 : Len(rings[r]) = 3 /\ rings[r][1] = rings[r][3]
  /\ rings[1][2] = rings[2][2]
  /\ rings[1][1] # rings[2][1]

C15_SingleFlight ==
  [][/\ passes' <= 1
     /\ cachedBoundaries # 0 => cachedBoundaries' = cachedBoundaries
     /\ \A t \in Threads :
          response'[t].status = "200" =>
            response'[t].body # 0 /\ response'[t].body = cachedBoundaries']_vars

\* One request was answered with the list while another, which had found
\* the cache empty, sits inside the lock before the second check.
C15_Witness ==
  \E t1, t2 \in Threads :
    /\ t1 # t2
    /\ response[t1].status = "200"
    /\ tpc[t2] = "locked"
    /\ cachedBoundaries # 0

\* Two consecutive points more than 180 degrees of longitude apart.
WideJump(p, q) == p[1] - q[1] > HalfTurn \/ q[1] - p[1] > HalfTurn

HasWideJump(path) == \E k \in 1..(Len(path) - 1) : WideJump(path[k], path[k + 1])

JumpIndices(ring) == {k \in 2..Len(ring) : WideJump(ring[k - 1], ring[k])}

Drawable(segment) == Len(segment) > 2

\* C20: the antimeridian is handled only when drawing: no step of the
\* renderer changes the stored ring, and when a ring of more than two
\* points has been drawn, its segments are the ring cut exactly at the
\* indices where consecutive points are more than 180 degrees of longitude
\* apart, the sub-paths drawn are the segments of more than two points, and
\* no sub-path has two consecutive points that far apart.
C20_SplitWhenDrawing ==
  [][/\ actualRing' = actualRing
     /\ (rpc' = "done" /\ Len(actualRing) > 2) =>
          /\ Concatenated(segments') = actualRing
          /\ Len(segments') = Cardinality(JumpIndices(actualRing)) + 1
          /\ \A k \in 1..Len(segments') : ~HasWideJump(segments'[k])
          /\ subPaths' = SelectSeq(segments', Drawable)
          /\ \A k \in 1..Len(subPaths') : ~HasWideJump(subPaths'[k])]_vars

\* A ring crossing the antimeridian was drawn as two sub-paths.
C20_Witness ==
  /\ rpc = "done"
  /\ Len(subPaths) = 2
  /\ HasWideJump(actualRing)

\* C14: the request counter never decreases, and a result is applied or
\* cached only for a query that was current when its response completed:
\* the comparison comes out "current" only for the query id that equals the
\* counter then, mapData changes only in such a step, and the cache changes
\* only by the put of a call whose comparison came out "current".
C14_NoStaleApplied ==
  [][/\ queryCounterRef' >= queryCounterRef
     /\ \A n \in 1..Len(calls) :
          (calls[n].check # "current" /\ calls'[n].check = "current") =>
            calls[n].qid = queryCounterRef
     /\ mapData' # mapData =>
          \E n \in 1..Len(calls) : calls[n].check = "none" /\ calls'[n].check = "current"
     /\ cache' # cache =>
          \E n \in 1..Len(calls) :
            /\ calls[n].pc = "put"
            /\ calls[n].check = "current"
            /\ cache' = [cache EXCEPT ![calls[n].bbox] = calls[n].data]]_vars

\* An older call's response was discarded as stale and a newer call's
\* result was applied.
C14_Witness ==
  \E n1, n2 \in 1..Len(calls) :
    /\ n1 < n2
    /\ calls[n1].pc = "done"
    /\ calls[n1].check = "stale"
    /\ calls[n2].check = "current"

\* C16 as stated: once a bbox has an entry in the cache, no step changes
\* the data stored under it.
C16_CacheImmutable ==
  [][\A b \in Bboxes : cache[b] # NoData => cache'[b] = cache[b]]_vars

\* The calls of fetchMapData made by timer k.
StartedBy(k) == {n \in 1..Len(calls) : calls[n].by = k}

\* C17: at most one debounce timer is pending, and it is the last event's;
\* the timer of an event that was followed by another event before it fired
\* (or was cleared by the cleanup) starts no call, and every other event's
\* timer, once it has fired, has started exactly one call, made before any
\* later event.  So a burst ends in one call, after its last event.
C17_Debounce ==
  /\ Cardinality(timers) <= 1
  /\ timers \subseteq {moves}
  /\ \A k \in 1..moves :
       /\ Cardinality(StartedBy(k)) = IF k \in superseded \cup timers THEN 0 ELSE 1
       /\ \A n \in StartedBy(k) : calls[n].atMove = k

\* A burst of two events: the first event's timer was cleared by the second
\* event, whose timer then made a call.
C17_Witness ==
  /\ moves = 2
  /\ 1 \in superseded
  /\ StartedBy(1) = {}
  /\ StartedBy(2) # {}

\* C18 as stated: each kind of provider failure gives the caller its own
\* outcome: 429 'rate-limited', 504 'timeout', 400 'query-too-large', any
\* other failed status or exception 'transport-error'.
C18_DistinguishedOutcomes ==
  [][\A n \in 1..Len(calls) :
       /\ OverpassRateLimited(n) => calls'[n].outcome = "rate-limited"
       /\ OverpassTimeout(n) => calls'[n].outcome = "timeout"
       /\ OverpassTooLarge(n) => calls'[n].outcome = "query-too-large"
       /\ OverpassError(n) => calls'[n].outcome = "transport-error"]_vars

\* C19 as stated: when the Overpass request of a call fails with 504 or 400
\* and the cache holds data (roads, parks or water) for the call's bbox, the
\* cached data is applied to mapData.
C19_FallbackToCache ==
  [][\A n \in 1..Len(calls) :
       ((OverpassTimeout(n) \/ OverpassTooLarge(n))
          /\ cache[calls[n].bbox] # NoData
          /\ HasData(cache[calls[n].bbox]))
       => mapData' = [from |-> calls[n].bbox, data |-> cache[calls[n].bbox]]]_vars

\* C21: the splice step against a reference: with ring R and the candidate
\* W that a pass splices, the new ring is R without its last point ++ W
\* when R.last ~ W.first; else R without its last point ++ reverse(W) when
\* R.last ~ W.last; else W without its last point ++ R when R.first ~
\* W.last; else reverse(W) without its last point ++ R when R.first ~
\* W.first, the cases tried in this order.
C21_SpliceReference ==
  [][(pc = "while" /\ Stitching) =>
       \A j \in used' \ used :
         LET R == currentRing
             W == outerWays[j]
             n == Len(R)
             m == Len(W)
             backwards == [k \in 1..m |-> W[m + 1 - k]]
         IN  currentRing' =
               IF WithinEpsilon(R[n], W[1]) THEN SubSeq(R, 1, n - 1) \o W
               ELSE IF WithinEpsilon(R[n], W[m]) THEN SubSeq(R, 1, n - 1) \o backwards
               ELSE IF WithinEpsilon(R[1], W[m]) THEN SubSeq(W, 1, m - 1) \o R
               ELSE IF WithinEpsilon(R[1], W[1]) THEN SubSeq(backwards, 1, m - 1) \o R
               ELSE <<>>]_vars

\* The ring under construction is a seed with one way appended reversed and
\* another prepended reversed.
C21_Witness ==
  /\ Stitching
  /\ pc = "while"
  /\ Len(curMem) = 3
  /\ curMem[1].rev /\ curMem[1].j # i
  /\ curMem[2].j = i
  /\ curMem[3].rev
  /\ Len(currentRing) = 4

\* C22: each ring is seeded with the lowest-indexed unused segment, and
\* every pass of the connection search splices the lowest-indexed unused
\* segment that matches at either end of the ring, whatever segment the
\* pass before spliced: a lower-indexed candidate that matches only at the
\* ring's start wins over a higher-indexed one that matches at its end.
C22_LowestIndexFirst ==
  [][Stitching =>
       \A j \in used' \ used :
         /\ pc = "for" =>
              /\ \A k \in 1..Len(outerWays) : k \notin used => j <= k
              /\ currentRing' = outerWays[j]
         /\ pc = "while" =>
              \A k \in Coincident(currentRing, outerWays, used) : j <= k]_vars

\* Way 2, which matches only the seed's start, was spliced while way 3, which
\* matches the seed's end, was still unused.
C22_Witness ==
  /\ Stitching
  /\ pc = "while"
  /\ Len(outerWays) = 3
  /\ used = {1, 2}
  /\ curMem[1].j = 2 /\ curMem[2].j = 1
  /\ LET seed == Ways0[1]
         w2   == Ways0[2]
         w3   == Ways0[3]
     IN  /\ \A q \in {w2[1], w2[Len(w2)]} : ~WithinEpsilon(seed[Len(seed)], q)
         /\ \E q \in {w3[1], w3[Len(w3)]} : WithinEpsilon(seed[Len(seed)], q)

\* The other copy of the stitcher.
OtherImpl == IF impl = "ts" THEN "cs" ELSE "ts"

\* C26: the client-side and the server-side stitcher return the same rings
\* for the same list of non-empty ways, point for point and in the same
\* ring order, the client's single-way shortcut included: the run of one
\* copy ends with the rings the other copy computes.
C26_SameAlgorithm ==
  Finished =>
    LET ways == Ways0
    IN  /\ rings = PtsOf(StitchRings(ways, OtherImpl))
        /\ PtsOf(StitchRings(ways, "ts")) = PtsOf(StitchRings(ways, "cs"))

\* The server copy finished a run in which RemoveAt shortened a way of its
\* list in place and a second ring was seeded afterwards.
C26_Witness ==
  /\ Finished
  /\ impl = "cs"
  /\ Len(rings) = 2
  /\ \E k \in 1..Len(outerWays) : Len(outerWays[k]) < Len(Ways0[k])

\* The first and last points of a way are within epsilon.
Closed(w) == WithinEpsilon(w[1], w[Len(w)])

\* C27: closure does not stop stitching: a pass on a ring whose first and
\* last points coincide still splices when an unused segment has an endpoint
\* coincident with an endpoint of the ring, and two closed segments that
\* share their start point come out as one ring.
C27_ClosureDoesNotStop ==
  [][/\ (/\ pc = "while" /\ Stitching
         /\ Closed(currentRing)
         /\ Coincident(currentRing, outerWays, used) # {})
        => (/\ Cardinality(used') = Cardinality(used) + 1
            /\ rings' = rings
            /\ pc' = "while")
     /\ (/\ Finished'
         /\ Len(outerWays') = 2
         /\ Closed(Ways0[1]) /\ Closed(Ways0[2])
         /\ WithinEpsilon(Ways0[1][1], Ways0[2][1]))
        => Len(rings') = 1]_vars

\* Two closed three-point segments with the same start point came out as
\* one ring of five points.
C27_Witness ==
  /\ Finished
  /\ Len(Ways0) = 2
  /\ \A k \in 1..2 : Len(Ways0[k]) = 3 /\ Ways0[k][1] = Ways0[k][3]
  /\ Ways0[1][1] = Ways0[2][1]
  /\ Len(rings) = 1
  /\ Len(rings[1]) = 5

\* The number of splices the rings of `mems` took: each ring's members but
\* its seed.
RECURSIVE Splices(_)
Splices(mems) ==
  IF Len(mems) = 0 THEN 0 ELSE (Len(Head(mems)) - 1) + Splices(Tail(mems))

\* C30: for S >= 1 non-empty segments the loops finish; at no time have
\* more than S - 1 splices been made, and at least one and at most S rings
\* are returned, each of them non-empty.
C30_Terminates ==
  /\ <>(pc = "done")
  /\ [](LET S == Len(Ways0)
        IN  (Stitching /\ S >= 1) =>
              /\ Splices(AllMem) <= S - 1
              /\ pc = "done" =>
                   /\ Len(rings) >= 1
                   /\ Len(rings) <= S
                   /\ \A r \in 1..Len(rings) : Len(rings[r]) >= 1)

\* A run on three segments finished after two splices.
C30_Witness ==
  /\ Finished
  /\ Len(Ways0) = 3
  /\ Splices(ringMem) = 2
  /\ Len(rings) = 1

\* Nothing is pending: the effect is mounted, no debounce timer is set and
\* every invocation has completed.
Settled ==
  /\ mounted = "yes"
  /\ timers = {}
  /\ Len(calls) > 0
  /\ \A n \in 1..Len(calls) : calls[n].pc = "done"

\* The invocations with a provider request under way.
InFlight == {n \in 1..Len(calls) : calls[n].pc \in {"overpass", "backend"}}

\* C23 as stated: when all provider requests succeed, once the viewport has
\* stopped changing and every invocation has completed, mapData holds the
\* data fetched for the final viewport (the backend's boundaries on the
\* backend route, the data of the viewport's bbox otherwise).
C23_LatestViewportShown ==
  (Settled /\ viewport.valid) =>
    IF viewport.zoom < BackendZoom
    THEN mapData.from = "backend"
    ELSE mapData.from = viewport.bbox

\* C24 as stated, for a first invocation that failed: the effect's own
\* invocation has ended without passing the query id comparison and left its
\* bbox in lastBboxRef (so its Overpass request failed); the next invocation
\* finds the same bbox outside the rate-limit window and goes on to the
\* cache lookup and the provider request instead of returning.
C24_FailedFetchRetried ==
  [][(/\ Running
      /\ Len(calls) = 2
      /\ calls[1].pc = "done"
      /\ calls[1].check = "none"
      /\ viewport.valid
      /\ viewport.zoom >= BackendZoom
      /\ lastBboxRef = viewport.bbox
      /\ ~rateLimited)
     => calls'[2].pc = "lookup"]_vars

\* C28 as stated: isLoading is true whenever some invocation has a provider
\* request under way.
C28_LoadingTracksInFlight == InFlight # {} => isLoading

\* C25 as stated: two invocations on the Overpass route, one after the
\* other, whose normalized south, west, north or east differ do not have the
\* same bbox string (the one compared with lastBboxRef and used as the cache
\* key), the viewports that cross the dateline included.
C25_KeyIdentifiesViewport ==
  [][(/\ calls # <<>>
      /\ queryCounterRef' # queryCounterRef
      /\ calls[1].route = "overpass"
      /\ calls'[1].route = "overpass"
      /\ <<calls[1].south, calls[1].west, calls[1].north, calls[1].east>>
           # <<calls'[1].south, calls'[1].west, calls'[1].north, calls'[1].east>>)
     => calls'[1].bbox # calls[1].bbox]_vars

====
